---- MODULE Spec2Model ----
(***************************************************************************)
(* Model of src/app.py: the Streamlit chat page of MedOryx.                *)
(*                                                                         *)
(* Strings are sequences of one-character strings, so that substring       *)
(* tests, splitting, stripping, the regular expressions and the JSON       *)
(* decoder are computed character by character as Python computes them.    *)
(***************************************************************************)
EXTENDS Integers, Sequences, FiniteSets, TLC

VARIABLES messages, tool_invocations, pc, prompts, current_tool_invocations,
          pos, liveOut, histIdx, histOut,
          raw, fault, rpc, out_live, out_hist, out_again

vars == <<messages, tool_invocations, pc, prompts, current_tool_invocations,
          pos, liveOut, histIdx, histOut,
          raw, fault, rpc, out_live, out_hist, out_again>>

sessionVars == <<messages, tool_invocations, pc, prompts,
                 current_tool_invocations, pos, liveOut, histIdx, histOut>>

renderVars == <<raw, fault, rpc, out_live, out_hist, out_again>>

----------------------------------------------------------------------------
(* Python str / re primitives used by the renderer.                        *)

\* s[i:i+len(p)] == p
MatchAt(s, p, i) ==
    /\ i >= 1
    /\ i + Len(p) - 1 <= Len(s)
    /\ \A k \in 1..Len(p) : s[i + k - 1] = p[k]

\* p in s
Contains(s, p) == \E i \in 1..(Len(s) - Len(p) + 1) : MatchAt(s, p, i)

\* s.find(p, i), 1-based, 0 when absent
RECURSIVE Find(_, _, _)
Find(s, p, i) ==
    IF i + Len(p) - 1 > Len(s) THEN 0
    ELSE IF MatchAt(s, p, i) THEN i
    ELSE Find(s, p, i + 1)

\* s.startswith(p)
startswith(s, p) == MatchAt(s, p, 1)

\* s.split(sep)
RECURSIVE split(_, _)
split(s, sep) ==
    LET k == Find(s, sep, 1)
    IN  IF k = 0 THEN <<s>>
        ELSE <<SubSeq(s, 1, k - 1)>> \o split(SubSeq(s, k + Len(sep), Len(s)), sep)

\* s.split(sep, 1)
split1(s, sep) ==
    LET k == Find(s, sep, 1)
    IN  IF k = 0 THEN <<s>>
        ELSE <<SubSeq(s, 1, k - 1), SubSeq(s, k + Len(sep), Len(s))>>

\* sep.join(parts)
RECURSIVE join(_, _)
join(parts, sep) ==
    IF Len(parts) = 0 THEN <<>>
    ELSE IF Len(parts) = 1 THEN parts[1]
    ELSE parts[1] \o sep \o join(Tail(parts), sep)

\* s.replace(p, r): leftmost non-overlapping occurrences
replace(s, p, r) == join(split(s, p), r)

isspace(c) == c \in {" ", "\n", "\t", "\r"}

RECURSIVE lstrip(_)
lstrip(s) == IF Len(s) > 0 /\ isspace(s[1]) THEN lstrip(Tail(s)) ELSE s

RECURSIVE rstrip(_)
rstrip(s) ==
    IF Len(s) > 0 /\ isspace(s[Len(s)]) THEN rstrip(SubSeq(s, 1, Len(s) - 1)) ELSE s

\* s.strip()
strip(s) == rstrip(lstrip(s))

isdigit(c) == c \in {"0", "1", "2", "3", "4", "5", "6", "7", "8", "9"}

\* index just past the run of digits that starts at i
RECURSIVE DigitsEnd(_, _)
DigitsEnd(s, i) == IF i <= Len(s) /\ isdigit(s[i]) THEN DigitsEnd(s, i + 1) ELSE i

DotRow == <<".", " ", "r", "o", "w">>

\* end (exclusive) of a match of \d+\. row that starts at i, or 0
RowMatchEnd(s, i) ==
    IF i <= Len(s) /\ isdigit(s[i]) /\ MatchAt(s, DotRow, DigitsEnd(s, i))
    THEN DigitsEnd(s, i) + Len(DotRow)
    ELSE 0

\* re.split(r'\d+\. row', s), scanning from i with the current piece starting at b
RECURSIVE re_split_from(_, _, _)
re_split_from(s, b, i) ==
    IF i > Len(s) THEN <<SubSeq(s, b, Len(s))>>
    ELSE LET e == RowMatchEnd(s, i)
         IN  IF e = 0 THEN re_split_from(s, b, i + 1)
             ELSE <<SubSeq(s, b, i - 1)>> \o re_split_from(s, e, e)

re_split(s) == re_split_from(s, 1, 1)

TextEqQuote == <<"t", "e", "x", "t", "=", "'">>
Quote == <<"'">>

\* re.search(r"text='([^']*)'", s): [found, group]
re_search(s) ==
    LET k == Find(s, TextEqQuote, 1)
        b == k + Len(TextEqQuote)
        q == IF k = 0 THEN 0 ELSE Find(s, Quote, b)
    IN  IF q = 0 THEN [found |-> FALSE, group |-> <<>>]
        ELSE [found |-> TRUE, group |-> SubSeq(s, b, q - 1)]

\* the ten markers f"{i}. row" for i in range(1, 11)
RowMarkers ==
    { <<d>> \o DotRow : d \in {"1", "2", "3", "4", "5", "6", "7", "8", "9"} }
        \cup { <<"1", "0">> \o DotRow }

\* any(f"{i}. row" in s for i in range(1, 11))
AnyRowMarker(s) == \E m \in RowMarkers : Contains(s, m)

Row == <<"r", "o", "w">>
Colon == <<":">>
Comma == <<",">>
NL == <<"\n">>
EscNL == <<"\\", "n">>
MetaEq == <<"m", "e", "t", "a", "=">>
ContentTC == <<"c", "o", "n", "t", "e", "n", "t", "=", "[", "T", "e", "x", "t",
               "C", "o", "n", "t", "e", "n", "t">>
ResultColon == <<"R", "e", "s", "u", "l", "t", ":">>
\* the backquote character (SANY has no string literal for it)
Backquote == "BACKQUOTE"
Fence == <<Backquote, Backquote, Backquote>>

----------------------------------------------------------------------------
(* Python dict: insertion-ordered sequence of <<key, value>> pairs.        *)

DictHas(d, k) == \E j \in 1..Len(d) : d[j][1] = k

\* d[k] = v: a new key is appended, an existing key keeps its place
DictSet(d, k, v) ==
    IF DictHas(d, k)
    THEN [j \in 1..Len(d) |-> IF d[j][1] = k THEN <<k, v>> ELSE d[j]]
    ELSE Append(d, <<k, v>>)

----------------------------------------------------------------------------
(* json.loads (json.decoder / json.scanner, strict mode).                  *)
(* A decoded value is [t, s, elems, keys, vals]: t the type, s the text of *)
(* a string or number, elems the items of an array, keys and vals the      *)
(* members of an object in insertion order.                                *)

JVal(t, s, elems, keys, vals) ==
    [t |-> t, s |-> s, elems |-> elems, keys |-> keys, vals |-> vals]
JNull == JVal("null", <<>>, <<>>, <<>>, <<>>)
JTrue == JVal("true", <<>>, <<>>, <<>>, <<>>)
JFalse == JVal("false", <<>>, <<>>, <<>>, <<>>)
JNum(s) == JVal("num", s, <<>>, <<>>, <<>>)
JStr(s) == JVal("str", s, <<>>, <<>>, <<>>)
JArr(elems) == JVal("arr", <<>>, elems, <<>>, <<>>)
JObj(keys, vals) == JVal("obj", <<>>, <<>>, keys, vals)

\* a decoding step: ok, the index after the decoded text, the value
JOk(end, val) == [ok |-> TRUE, end |-> end, val |-> val]
JErr == [ok |-> FALSE, end |-> 0, val |-> JNull]

CharAt(s, i) == IF i >= 1 /\ i <= Len(s) THEN s[i] ELSE "EOF"

\* WHITESPACE.match(s, i).end()
RECURSIVE SkipWs(_, _)
SkipWs(s, i) == IF i <= Len(s) /\ isspace(s[i]) THEN SkipWs(s, i + 1) ELSE i

ishex(c) == isdigit(c) \/ c \in {"a", "b", "c", "d", "e", "f",
                                  "A", "B", "C", "D", "E", "F"}

\* BACKSLASH: the character an escape letter stands for
Unescape(c) ==
    CASE c = "n" -> "\n"
      [] c = "t" -> "\t"
      [] c = "r" -> "\r"
      [] c = "b" -> "BACKSPACE"
      [] c = "f" -> "FORMFEED"
      [] OTHER -> c

\* py_scanstring from index i (just after the opening quote), acc the text so far
RECURSIVE ScanString(_, _, _)
ScanString(s, i, acc) ==
    LET c == CharAt(s, i)
    IN  IF i > Len(s) THEN JErr
        ELSE IF c = "\"" THEN JOk(i + 1, JStr(acc))
        ELSE IF c \in {"\n", "\t", "\r"} THEN JErr
        ELSE IF c # "\\" THEN ScanString(s, i + 1, Append(acc, c))
        ELSE LET e == CharAt(s, i + 1)
             IN  IF e \in {"\"", "\\", "/", "b", "f", "n", "r", "t"}
                 THEN ScanString(s, i + 2, Append(acc, Unescape(e)))
                 ELSE IF e = "u" /\ \A k \in 2..5 : ishex(CharAt(s, i + k))
                 THEN ScanString(s, i + 6, acc \o SubSeq(s, i, i + 5))
                 ELSE JErr

\* NUMBER_RE: (-?(?:0|[1-9]\d*))(\.\d+)?([eE][-+]?\d+)?
\* the integer part from j0 (after the sign): its end, or 0
NumberInt(s, j0) ==
    IF CharAt(s, j0) = "0" THEN j0 + 1
    ELSE IF isdigit(CharAt(s, j0)) THEN DigitsEnd(s, j0)
    ELSE 0

\* the optional fraction from j1: its end, or j1
NumberFrac(s, j1) ==
    IF CharAt(s, j1) = "." /\ isdigit(CharAt(s, j1 + 1))
    THEN DigitsEnd(s, j1 + 1) ELSE j1

\* the optional exponent from j2 whose digits are expected at k: its end, or j2
NumberExpAt(s, j2, k) ==
    IF CharAt(s, j2) \in {"e", "E"} /\ isdigit(CharAt(s, k))
    THEN DigitsEnd(s, k) ELSE j2

NumberExp(s, j2) ==
    NumberExpAt(s, j2, IF CharAt(s, j2 + 1) \in {"+", "-"} THEN j2 + 2 ELSE j2 + 1)

NumberTail(s, j1) == IF j1 = 0 THEN 0 ELSE NumberExp(s, NumberFrac(s, j1))

\* NUMBER_RE.match(s, i).end(), or 0
NumberEnd(s, i) == NumberTail(s, NumberInt(s, IF CharAt(s, i) = "-" THEN i + 1 ELSE i))

NullLit == <<"n", "u", "l", "l">>
TrueLit == <<"t", "r", "u", "e">>
FalseLit == <<"f", "a", "l", "s", "e">>
NaNLit == <<"N", "a", "N">>
InfinityLit == <<"I", "n", "f", "i", "n", "i", "t", "y">>
NegInfinityLit == <<"-", "I", "n", "f", "i", "n", "i", "t", "y">>

RECURSIVE scan_once(_, _)
RECURSIVE ScanAt(_, _, _, _, _)
RECURSIVE JSONArray(_, _, _)
RECURSIVE ArrayItem(_, _, _)
RECURSIVE ArrayDelim(_, _, _)
RECURSIVE JSONObject(_, _, _, _)
RECURSIVE ObjectKey(_, _, _, _)
RECURSIVE ObjectColon(_, _, _, _, _)
RECURSIVE ObjectValue(_, _, _, _, _)
RECURSIVE ObjectDelim(_, _, _, _)

\* JSONArray: after the items elems, e is where "]" or "," is expected
ArrayDelim(s, elems, e) ==
    IF CharAt(s, e) = "]" THEN JOk(e + 1, JArr(elems))
    ELSE IF CharAt(s, e) = "," THEN JSONArray(s, SkipWs(s, e + 1), elems)
    ELSE JErr

\* JSONArray: v is the decoded next item
ArrayItem(s, elems, v) ==
    IF v.ok THEN ArrayDelim(s, Append(elems, v.val), SkipWs(s, v.end)) ELSE JErr

\* JSONArray: i is where the next item is expected (whitespace skipped)
JSONArray(s, i, elems) == ArrayItem(s, elems, scan_once(s, i))

\* position of key in keys, or Len(keys) + 1
KeyAt(keys, key) == CHOOSE j \in 1..(Len(keys) + 1) : j = Len(keys) + 1 \/ keys[j] = key

\* pairs[key] = value on a dict under construction: a repeated key keeps its place
PutKey(keys, key, at) == IF at <= Len(keys) THEN keys ELSE Append(keys, key)
PutVal(vals, val, at) ==
    IF at <= Len(vals)
    THEN [j \in 1..Len(vals) |-> IF j = at THEN val ELSE vals[j]]
    ELSE Append(vals, val)

\* JSONObject: after the members keys / vals, e is where "}" or "," is expected
ObjectDelim(s, keys, vals, e) ==
    IF CharAt(s, e) = "}" THEN JOk(e + 1, JObj(keys, vals))
    ELSE IF CharAt(s, e) = "," THEN JSONObject(s, SkipWs(s, e + 1), keys, vals)
    ELSE JErr

\* JSONObject: v is the decoded value of the member named key
ObjectValue(s, keys, vals, key, v) ==
    IF v.ok
    THEN ObjectDelim(s, PutKey(keys, key, KeyAt(keys, key)),
                     PutVal(vals, v.val, KeyAt(keys, key)), SkipWs(s, v.end))
    ELSE JErr

\* JSONObject: c is where the ":" after the key is expected
ObjectColon(s, keys, vals, key, c) ==
    IF CharAt(s, c) = ":"
    THEN ObjectValue(s, keys, vals, key, scan_once(s, SkipWs(s, c + 1)))
    ELSE JErr

\* JSONObject: k is the decoded key
ObjectKey(s, keys, vals, k) ==
    IF k.ok THEN ObjectColon(s, keys, vals, k.val.s, SkipWs(s, k.end)) ELSE JErr

\* JSONObject: i is where the opening quote of the next key is expected
JSONObject(s, i, keys, vals) ==
    IF CharAt(s, i) = "\"" THEN ObjectKey(s, keys, vals, ScanString(s, i + 1, <<>>))
    ELSE JErr

\* scan_once at i: c the character at i, b the index after the whitespace
\* that follows it, n the end of a number that starts at i (or 0)
ScanAt(s, i, c, b, n) ==
    IF i > Len(s) THEN JErr
    ELSE IF c = "\"" THEN ScanString(s, i + 1, <<>>)
    ELSE IF c = "{" THEN
        (IF CharAt(s, b) = "}" THEN JOk(b + 1, JObj(<<>>, <<>>))
         ELSE JSONObject(s, b, <<>>, <<>>))
    ELSE IF c = "[" THEN
        (IF CharAt(s, b) = "]" THEN JOk(b + 1, JArr(<<>>))
         ELSE JSONArray(s, b, <<>>))
    ELSE IF MatchAt(s, NullLit, i) THEN JOk(i + 4, JNull)
    ELSE IF MatchAt(s, TrueLit, i) THEN JOk(i + 4, JTrue)
    ELSE IF MatchAt(s, FalseLit, i) THEN JOk(i + 5, JFalse)
    ELSE IF n # 0 THEN JOk(n, JNum(SubSeq(s, i, n - 1)))
    ELSE IF MatchAt(s, NaNLit, i) THEN JOk(i + 3, JNum(NaNLit))
    ELSE IF MatchAt(s, InfinityLit, i) THEN JOk(i + 8, JNum(InfinityLit))
    ELSE IF MatchAt(s, NegInfinityLit, i) THEN JOk(i + 9, JNum(NegInfinityLit))
    ELSE JErr

\* scan_once(s, i): decode the value that starts at i
scan_once(s, i) == ScanAt(s, i, CharAt(s, i), SkipWs(s, i + 1), NumberEnd(s, i))

\* the document that decoded to v: nothing but whitespace may follow it
Decoded(s, v) ==
    IF v.ok /\ SkipWs(s, v.end) = Len(s) + 1
    THEN [ok |-> TRUE, val |-> v.val]
    ELSE [ok |-> FALSE, val |-> JNull]

\* json.loads(s): [ok, val]; ok = FALSE is JSONDecodeError
json_loads(s) == Decoded(s, scan_once(s, SkipWs(s, 1)))

----------------------------------------------------------------------------
(* What the page shows: one element per streamlit call.                    *)

Shown(kind, text, rows, value) ==
    [kind |-> kind, text |-> text, rows |-> rows, value |-> value]
st_text(text) == Shown("text", text, <<>>, JNull)
st_code(text) == Shown("code", text, <<>>, JNull)
st_write(text) == Shown("write", text, <<>>, JNull)
st_markdown(text) == Shown("markdown", text, <<>>, JNull)
st_json(value) == Shown("json", <<>>, <<>>, value)
\* st.dataframe(pd.DataFrame(data_list)): one record per dict of data_list
st_dataframe(data_list) == Shown("dataframe", <<>>, data_list, JNull)
\* st.table(data): the one record data
st_table(data) == Shown("table", <<>>, <<data>>, JNull)

\* a raw tool result: a str, or an already structured value
StrResult(s) == [isstr |-> TRUE, s |-> s, v |-> JNull]
ObjResult(v) == [isstr |-> FALSE, s |-> <<>>, v |-> v]

\* str() of a structured value (Python repr of dict, list, str, int, bool, None;
\* the strings of the model hold no quote, backslash or control character)
RECURSIVE repr(_)
repr(v) ==
    CASE v.t = "null" -> <<"N", "o", "n", "e">>
      [] v.t = "true" -> <<"T", "r", "u", "e">>
      [] v.t = "false" -> <<"F", "a", "l", "s", "e">>
      [] v.t = "num" -> v.s
      [] v.t = "str" -> Quote \o v.s \o Quote
      [] v.t = "arr" ->
            <<"[">> \o join([j \in 1..Len(v.elems) |-> repr(v.elems[j])], <<",", " ">>) \o <<"]">>
      [] v.t = "obj" ->
            <<"{">> \o join([j \in 1..Len(v.keys) |->
                                Quote \o v.keys[j] \o Quote \o <<":", " ">> \o repr(v.vals[j])],
                            <<",", " ">>) \o <<"}">>

\* str(tool_result)
str(r) == IF r.isstr THEN r.s ELSE repr(r.v)

\* the outcome c of a branch of the chain, with the name of the branch
Branch(rule, c) == [shown |-> c.shown, exc |-> c.exc, caught |-> c.caught, rule |-> rule]

----------------------------------------------------------------------------
(* The renderer of the history loop, lines 107-233.                        *)

\* lines 150-154 (and the same statements at 187-191): one row block to a dict
RECURSIVE HistoryRowData(_, _)
HistoryRowData(lines, row_data) ==
    IF Len(lines) = 0 THEN row_data
    ELSE LET line == Head(lines)
             kv == split1(line, Colon)
         IN  IF Contains(line, Colon)
             THEN HistoryRowData(Tail(lines), DictSet(row_data, strip(kv[1]), strip(kv[2])))
             ELSE HistoryRowData(Tail(lines), row_data)

\* lines 148-155 (and 185-192): data_list, one dict per row block
HistoryDataList(rows) ==
    [j \in 1..Len(rows) |-> HistoryRowData(split(strip(rows[j]), NL), <<>>)]

\* lines 156-159 / 193-196: if data_list: st.dataframe(pd.DataFrame(data_list))
HistoryDataFrame(data_list) == IF Len(data_list) > 0 THEN <<st_dataframe(data_list)>> ELSE <<>>

\* lines 144-162 / 181-199: rows are the pieces between the row markers
HistoryRows(text, rows) ==
    IF Len(rows) > 1 THEN HistoryDataFrame(HistoryDataList(Tail(rows))) ELSE <<st_text(text)>>

\* lines 144-162 / 181-199: split on the row markers and show the table
HistoryRowTable(text) == HistoryRows(text, re_split(text))

\* lines 165-167: one st.write per comma-separated item
HistoryBullets(items) == [j \in 1..Len(items) |-> st_write(<<"-", " ">> \o strip(items[j]))]

HistoryItems(extracted_text) == HistoryBullets(split(extracted_text, Comma))

\* lines 140-170: the extracted text as a table, a list or as it is
HistoryExtracted(extracted_text) ==
    IF Contains(extracted_text, Row) /\ AnyRowMarker(extracted_text)
    THEN HistoryRowTable(extracted_text)
    ELSE IF Contains(extracted_text, Comma) /\ Len(split(extracted_text, Comma)) > 1
    THEN HistoryItems(extracted_text)
    ELSE <<st_write(extracted_text)>>

\* lines 133-173: text_match is the outcome of the search for text='...'
HistoryMatched(tool_result, text_match) ==
    IF text_match.found
    THEN HistoryExtracted(replace(text_match.group, EscNL, NL))
    ELSE <<st_code(tool_result)>>

\* lines 133-173: the meta= / content=[TextContent format
HistoryWrapped(tool_result) == HistoryMatched(tool_result, re_search(tool_result))

\* lines 178-199: direct output with escaped newlines
HistoryEscaped(tool_result) == HistoryRowTable(replace(tool_result, EscNL, NL))

\* lines 220-221: if data: st.table(data)
HistoryBlockTable(data) == IF Len(data) > 0 THEN <<st_table(data)>> ELSE <<>>

\* lines 212-221: the heading lines[0], then the table of the other lines
HistoryBlockLines(lines) ==
    <<st_markdown(<<"*", "*">> \o lines[1] \o <<"*", "*">>)>>
        \o HistoryBlockTable(HistoryRowData(Tail(lines), <<>>))

\* lines 212-221: one blank-line-separated block: heading, then its table
HistoryBlock(row) == HistoryBlockLines(split(row, NL))

\* lines 209-221: the blocks of a SQL-like result, in order
RECURSIVE HistoryBlocks(_)
HistoryBlocks(rows) ==
    IF Len(rows) = 0 THEN <<>>
    ELSE (IF Len(strip(Head(rows))) > 0 /\ ~startswith(Head(rows), ResultColon)
          THEN HistoryBlock(Head(rows)) ELSE <<>>) \o HistoryBlocks(Tail(rows))

\* lines 207-224: except json.JSONDecodeError
HistoryNotJson(tool_result) ==
    IF Contains(tool_result, Row)
           /\ (Contains(tool_result, <<":", " ">>) \/ Contains(tool_result, Colon))
    THEN HistoryBlocks(split(tool_result, <<"\n", "\n">>))
    ELSE <<st_markdown(Fence \o NL \o tool_result \o NL \o Fence)>>

\* raise: the first streamlit / pandas call of a branch raising. A branch
\* that makes no such call raises nothing; otherwise nothing has been shown
\* yet when the exception leaves the branch.
HistoryTry(shown, raises) ==
    IF raises = "display" /\ Len(shown) > 0
    THEN [shown |-> <<>>, exc |-> TRUE, caught |-> FALSE]
    ELSE [shown |-> shown, exc |-> FALSE, caught |-> FALSE]

\* lines 203-224: parsed_result is the outcome of json.loads(tool_result)
HistoryParsed(tool_result, raises, parsed_result) ==
    IF raises = "loads" \/ (parsed_result.ok /\ raises = "display")
    THEN [shown |-> <<st_text(tool_result)>>, exc |-> FALSE, caught |-> TRUE]
    ELSE IF parsed_result.ok
    THEN [shown |-> <<st_json(parsed_result.val)>>, exc |-> FALSE, caught |-> FALSE]
    ELSE HistoryTry(HistoryNotJson(tool_result), raises)

\* lines 202-227: any other string. raises = "loads" is json.loads raising
\* something that is not a JSONDecodeError; it and a raising st.json are
\* caught by the inner except Exception (225-227), while an exception in
\* the JSONDecodeError handler leaves the inner try.
HistoryPlain(tool_result, raises) == HistoryParsed(tool_result, raises, json_loads(tool_result))

\* the history copy without the escaped-row-dump branch of the live copy
HistoryCascade_NoEscaped(r, raises) ==
    IF r.isstr /\ Contains(r.s, MetaEq) /\ Contains(r.s, ContentTC)
    THEN Branch("wrapped", HistoryTry(HistoryWrapped(r.s), raises))
    ELSE IF r.isstr
    THEN Branch("string", HistoryPlain(r.s, raises))
    ELSE Branch("object", HistoryTry(<<st_json(r.v)>>, raises))

\* lines 131-229: the if / elif chain; rule is the branch taken
HistoryCascade(r, raises) ==
    IF r.isstr /\ Contains(r.s, MetaEq) /\ Contains(r.s, ContentTC)
    THEN Branch("wrapped", HistoryTry(HistoryWrapped(r.s), raises))
    ELSE IF r.isstr /\ Contains(r.s, EscNL) /\ AnyRowMarker(r.s)
    THEN Branch("escaped", HistoryTry(HistoryEscaped(r.s), raises))
    ELSE IF r.isstr
    THEN Branch("string", HistoryPlain(r.s, raises))
    ELSE Branch("object", HistoryTry(<<st_json(r.v)>>, raises))

\* lines 230-232: except Exception: st.text(str(tool_result)), after the outcome
\* c of the chain
HistoryExcept(r, c) ==
    IF c.exc
    THEN [shown |-> c.shown \o <<st_text(str(r))>>, exc |-> FALSE, caught |-> TRUE,
          rule |-> c.rule]
    ELSE c

\* lines 129-232: the try / except Exception around the chain. The result
\* is what was shown, whether an exception leaves the renderer (exc) and
\* whether an except Exception handler ran (caught).
HistoryRender(r, raises) == HistoryExcept(r, HistoryCascade(r, raises))

----------------------------------------------------------------------------
(* The renderer of the live turn, lines 291-412.                           *)

\* lines 329-333 (and the same statements at 366-370): one row block to a dict
RECURSIVE LiveRowData(_, _)
LiveRowData(lines, row_data) ==
    IF Len(lines) = 0 THEN row_data
    ELSE LET line == Head(lines)
             kv == split1(line, Colon)
         IN  IF Contains(line, Colon)
             THEN LiveRowData(Tail(lines), DictSet(row_data, strip(kv[1]), strip(kv[2])))
             ELSE LiveRowData(Tail(lines), row_data)

\* lines 327-334 (and 364-371): data_list, one dict per row block
LiveDataList(rows) ==
    [j \in 1..Len(rows) |-> LiveRowData(split(strip(rows[j]), NL), <<>>)]

\* lines 335-338 / 372-375: if data_list: st.dataframe(pd.DataFrame(data_list))
LiveDataFrame(data_list) == IF Len(data_list) > 0 THEN <<st_dataframe(data_list)>> ELSE <<>>

\* the table built without skipping the text before the first row marker
LiveRows_KeepFirst(text, rows) ==
    IF Len(rows) > 1 THEN LiveDataFrame(LiveDataList(rows)) ELSE <<st_text(text)>>

\* lines 323-341 / 360-378: rows are the pieces between the row markers
LiveRows(text, rows) ==
    IF Len(rows) > 1 THEN LiveDataFrame(LiveDataList(Tail(rows))) ELSE <<st_text(text)>>

\* lines 323-341 / 360-378: split on the row markers and show the table
LiveRowTable(text) == LiveRows(text, re_split(text))

\* lines 344-346: one st.write per comma-separated item
LiveBullets(items) == [j \in 1..Len(items) |-> st_write(<<"-", " ">> \o strip(items[j]))]

LiveItems(extracted_text) == LiveBullets(split(extracted_text, Comma))

\* the extracted text tested for a comma list before the row markers
LiveExtracted_CommaFirst(extracted_text) ==
    IF Contains(extracted_text, Comma) /\ Len(split(extracted_text, Comma)) > 1
    THEN LiveItems(extracted_text)
    ELSE IF Contains(extracted_text, Row) /\ AnyRowMarker(extracted_text)
    THEN LiveRowTable(extracted_text)
    ELSE <<st_write(extracted_text)>>

\* lines 319-349: the extracted text as a table, a list or as it is
LiveExtracted(extracted_text) ==
    IF Contains(extracted_text, Row) /\ AnyRowMarker(extracted_text)
    THEN LiveRowTable(extracted_text)
    ELSE IF Contains(extracted_text, Comma) /\ Len(split(extracted_text, Comma)) > 1
    THEN LiveItems(extracted_text)
    ELSE <<st_write(extracted_text)>>

\* lines 312-352: text_match is the outcome of the search for text='...'
LiveMatched(tool_result, text_match) ==
    IF text_match.found
    THEN LiveExtracted(replace(text_match.group, EscNL, NL))
    ELSE <<st_code(tool_result)>>

\* lines 312-352: the meta= / content=[TextContent format
LiveWrapped(tool_result) == LiveMatched(tool_result, re_search(tool_result))

\* lines 357-378: direct output with escaped newlines
LiveEscaped(tool_result) == LiveRowTable(replace(tool_result, EscNL, NL))

\* lines 399-400: if data: st.table(data)
LiveBlockTable(data) == IF Len(data) > 0 THEN <<st_table(data)>> ELSE <<>>

\* lines 391-400: the heading lines[0], then the table of the other lines
LiveBlockLines(lines) ==
    <<st_markdown(<<"*", "*">> \o lines[1] \o <<"*", "*">>)>>
        \o LiveBlockTable(LiveRowData(Tail(lines), <<>>))

\* lines 391-400: one blank-line-separated block: heading, then its table
LiveBlock(row) == LiveBlockLines(split(row, NL))

\* lines 388-400: the blocks of a SQL-like result, in order
RECURSIVE LiveBlocks(_)
LiveBlocks(rows) ==
    IF Len(rows) = 0 THEN <<>>
    ELSE (IF Len(strip(Head(rows))) > 0 /\ ~startswith(Head(rows), ResultColon)
          THEN LiveBlock(Head(rows)) ELSE <<>>) \o LiveBlocks(Tail(rows))

\* the fallback trimming the text it shows
LiveNotJson_Strip(tool_result) ==
    IF Contains(tool_result, Row)
           /\ (Contains(tool_result, <<":", " ">>) \/ Contains(tool_result, Colon))
    THEN LiveBlocks(split(tool_result, <<"\n", "\n">>))
    ELSE <<st_markdown(Fence \o NL \o strip(tool_result) \o NL \o Fence)>>

\* the fallback with the comma-list handling of the wrapped-content branch
LiveNotJson_Items(tool_result) ==
    IF Contains(tool_result, Row)
           /\ (Contains(tool_result, <<":", " ">>) \/ Contains(tool_result, Colon))
    THEN LiveBlocks(split(tool_result, <<"\n", "\n">>))
    ELSE IF Contains(tool_result, Comma)
    THEN LiveItems(tool_result)
    ELSE <<st_markdown(Fence \o NL \o tool_result \o NL \o Fence)>>

\* the fallback showing the text in quotes
LiveNotJson_Quoted(tool_result) ==
    IF Contains(tool_result, Row)
           /\ (Contains(tool_result, <<":", " ">>) \/ Contains(tool_result, Colon))
    THEN LiveBlocks(split(tool_result, <<"\n", "\n">>))
    ELSE <<st_markdown(Fence \o NL \o Quote \o tool_result \o Quote \o NL \o Fence)>>

\* lines 386-403: except json.JSONDecodeError
LiveNotJson(tool_result) ==
    IF Contains(tool_result, Row)
           /\ (Contains(tool_result, <<":", " ">>) \/ Contains(tool_result, Colon))
    THEN LiveBlocks(split(tool_result, <<"\n", "\n">>))
    ELSE <<st_markdown(Fence \o NL \o tool_result \o NL \o Fence)>>

\* raise: the first streamlit / pandas call of a branch raising. A branch
\* that makes no such call raises nothing; otherwise nothing has been shown
\* yet when the exception leaves the branch.
LiveTry(shown, raises) ==
    IF raises = "display" /\ Len(shown) > 0
    THEN [shown |-> <<>>, exc |-> TRUE, caught |-> FALSE]
    ELSE [shown |-> shown, exc |-> FALSE, caught |-> FALSE]

\* lines 382-403: parsed_result is the outcome of json.loads(tool_result)
LiveParsed(tool_result, raises, parsed_result) ==
    IF raises = "loads" \/ (parsed_result.ok /\ raises = "display")
    THEN [shown |-> <<st_text(tool_result)>>, exc |-> FALSE, caught |-> TRUE]
    ELSE IF parsed_result.ok
    THEN [shown |-> <<st_json(parsed_result.val)>>, exc |-> FALSE, caught |-> FALSE]
    ELSE LiveTry(LiveNotJson(tool_result), raises)

\* the SQL-like test made before json.loads
LivePlain_RowsFirst(tool_result, raises) ==
    IF Contains(tool_result, Row) /\ Contains(tool_result, Colon)
    THEN LiveTry(LiveNotJson(tool_result), raises)
    ELSE LiveParsed(tool_result, raises, json_loads(tool_result))

\* lines 381-406: any other string. raises = "loads" is json.loads raising
\* something that is not a JSONDecodeError; it and a raising st.json are
\* caught by the inner except Exception (404-406), while an exception in
\* the JSONDecodeError handler leaves the inner try.
LivePlain(tool_result, raises) == LiveParsed(tool_result, raises, json_loads(tool_result))

\* the chain with the escaped-row-dump test made first
LiveCascade_EscapedFirst(r, raises) ==
    IF r.isstr /\ Contains(r.s, EscNL) /\ AnyRowMarker(r.s)
    THEN Branch("escaped", LiveTry(LiveEscaped(r.s), raises))
    ELSE IF r.isstr /\ Contains(r.s, MetaEq) /\ Contains(r.s, ContentTC)
    THEN Branch("wrapped", LiveTry(LiveWrapped(r.s), raises))
    ELSE IF r.isstr
    THEN Branch("string", LivePlain(r.s, raises))
    ELSE Branch("object", LiveTry(<<st_json(r.v)>>, raises))

\* lines 310-408: the if / elif chain; rule is the branch taken
LiveCascade(r, raises) ==
    IF r.isstr /\ Contains(r.s, MetaEq) /\ Contains(r.s, ContentTC)
    THEN Branch("wrapped", LiveTry(LiveWrapped(r.s), raises))
    ELSE IF r.isstr /\ Contains(r.s, EscNL) /\ AnyRowMarker(r.s)
    THEN Branch("escaped", LiveTry(LiveEscaped(r.s), raises))
    ELSE IF r.isstr
    THEN Branch("string", LivePlain(r.s, raises))
    ELSE Branch("object", LiveTry(<<st_json(r.v)>>, raises))

\* lines 409-411: except Exception: st.text(str(tool_result)), after the outcome
\* c of the chain
LiveExcept(r, c) ==
    IF c.exc
    THEN [shown |-> c.shown \o <<st_text(str(r))>>, exc |-> FALSE, caught |-> TRUE,
          rule |-> c.rule]
    ELSE c

\* the live renderer without its except Exception
LiveRender_NoExcept(r, raises) == LiveCascade(r, raises)

\* lines 308-411: the try / except Exception around the chain. The result
\* is what was shown, whether an exception leaves the renderer (exc) and
\* whether an except Exception handler ran (caught).
LiveRender(r, raises) == LiveExcept(r, LiveCascade(r, raises))

----------------
(* Raw tool results the model renders.                                     *)

\* pieces a result text is concatenated from
ChA == <<"a">>
ChCommaB == <<",", " ", "b">>
ChComma == <<",">>
ChRowEsc1 == <<"1", ".", " ", "r", "o", "w", "\\", "n", " ", " ", "i", "d",
    ":", " ", "1", "\\", "n", " ", " ", "n", "a", "m", "e", ":", " ", "x",
    "\\", "n">>
ChRowEsc2 == <<"2", ".", " ", "r", "o", "w", "\\", "n", " ", " ", "i", "d",
    ":", " ", "2", "\\", "n", " ", " ", "n", "a", "m", "e", ":", " ", "y",
    "\\", "n">>
ChRowNl1 == <<"1", ".", " ", "r", "o", "w", "\n", " ", " ", "i", "d", ":",
    " ", "1", "\n", " ", " ", "n", "a", "m", "e", ":", " ", "x", "\n">>
ChRowNl2 == <<"2", ".", " ", "r", "o", "w", "\n", " ", " ", "i", "d", ":",
    " ", "2", "\n", " ", " ", "n", "a", "m", "e", ":", " ", "y", "\n">>
Ch123 == <<"1", "2", "3">>
ChTrue == <<"t", "r", "u", "e">>
ChSpace == <<" ">>
ChResult == <<"R", "e", "s", "u", "l", "t", ":", " ", "1", " ", "r", "o",
    "w">>
ChBlank == <<"\n", "\n">>
ChRows == <<"r", "o", "w", "s", ":", " ", "3">>
ChQuote == <<"'">>
ChMarker == <<"1", ".", " ", "r", "o", "w">>
ChEscNL == <<"\\", "n">>
WrapPre == <<"m", "e", "t", "a", "=", "N", "o", "n", "e", " ", "c", "o",
    "n", "t", "e", "n", "t", "=", "[", "T", "e", "x", "t", "C", "o", "n",
    "t", "e", "n", "t", "(", "t", "y", "p", "e", "=", "'", "t", "e", "x",
    "t", "'", ",", " ", "t", "e", "x", "t", "=", "'">>
WrapPost == <<"'", ",", " ", "a", "n", "n", "o", "t", "a", "t", "i", "o",
    "n", "s", "=", "N", "o", "n", "e", ")", "]", " ", "i", "s", "E", "r",
    "r", "o", "r", "=", "F", "a", "l", "s", "e">>
NoTextPre == <<"m", "e", "t", "a", "=", "N", "o", "n", "e", " ", "c", "o",
    "n", "t", "e", "n", "t", "=", "[", "T", "e", "x", "t", "C", "o", "n",
    "t", "e", "n", "t", "(", "t", "y", "p", "e", "=", "'", "i", "m", "a",
    "g", "e", "'", ")", "]", " ">>
Drugs == <<"m", "e", "t", "f", "o", "r", "m", "i", "n", ",", " ", "l", "i",
    "s", "i", "n", "o", "p", "r", "i", "l", ",", " ", "a", "t", "o", "r",
    "v", "a", "s", "t", "a", "t", "i", "n">>
ABC == <<"a", ",", " ", "b", ",", " ", "c">>
\* a text with a backslash-escaped quote: Crohn\'s disease, nausea
ChCrohns == <<"C", "r", "o", "h", "n", "\\", "'", "s", " ", "d", "i", "s",
    "e", "a", "s", "e", ",", " ", "n", "a", "u", "s", "e", "a">>
\* a row block with a comma inside a value
ChRowComma == <<"1", ".", " ", "r", "o", "w", "\\", "n", " ", " ", "n", "a",
    "m", "e", ":", " ", "a", ",", " ", "b", "\\", "n", " ", " ", "i", "d",
    ":", " ", "1", "\\", "n">>

Chunks == {ChA, ChCommaB, ChComma, ChRowEsc1, ChRowEsc2, ChRowNl1, ChRowNl2,
           Ch123, ChTrue, ChSpace, ChResult, ChBlank, ChRows, ChQuote,
           ChMarker, ChEscNL}

\* most pieces in one text
MaxChunks == 2

RECURSIVE Concats(_)
Concats(n) ==
    IF n = 0 THEN {<<>>}
    ELSE Concats(n - 1) \cup {b \o c : b \in Concats(n - 1), c \in Chunks}

Bodies == Concats(MaxChunks) \cup {Drugs, ABC, ChRowComma, ChCrohns}

\* json.dumps(v) for the values of the model
EscapeChar(c) ==
    CASE c = "\"" -> <<"\\", "\"">>
      [] c = "\\" -> <<"\\", "\\">>
      [] c = "\n" -> <<"\\", "n">>
      [] c = "\t" -> <<"\\", "t">>
      [] c = "\r" -> <<"\\", "r">>
      [] OTHER -> <<c>>

RECURSIVE EscapeAll(_)
EscapeAll(s) == IF Len(s) = 0 THEN <<>> ELSE EscapeChar(Head(s)) \o EscapeAll(Tail(s))

RECURSIVE dumps(_)
dumps(v) ==
    CASE v.t = "null" -> NullLit
      [] v.t = "true" -> TrueLit
      [] v.t = "false" -> FalseLit
      [] v.t = "num" -> v.s
      [] v.t = "str" -> <<"\"">> \o EscapeAll(v.s) \o <<"\"">>
      [] v.t = "arr" ->
            <<"[">> \o join([j \in 1..Len(v.elems) |-> dumps(v.elems[j])], <<",", " ">>) \o <<"]">>
      [] v.t = "obj" ->
            <<"{">> \o join([j \in 1..Len(v.keys) |->
                                <<"\"">> \o EscapeAll(v.keys[j]) \o <<"\"">> \o <<":", " ">>
                                    \o dumps(v.vals[j])],
                            <<",", " ">>) \o <<"}">>

\* structured values: serialized they are JSON texts, as they are the
\* results of a tool that returns an object
JsonValues ==
    { JNull, JTrue, JFalse, JNum(Ch123), JStr(ChA), JStr(<<>>),
      JStr(MetaEq \o ChSpace \o ContentTC),
      JStr(WrapPre \o ABC \o WrapPost),
      JStr(ChA \o NL \o ChMarker),
      JStr(ChRowNl1 \o ChRowNl2),
      JStr(ChRows),
      JArr(<<>>), JArr(<<JNum(<<"1">>), JNum(<<"2">>)>>),
      JObj(<<>>, <<>>),
      JObj(<<<<"i", "d">>>>, <<JNum(<<"1">>)>>),
      JObj(<<Row, ChA>>, <<JStr(ChMarker), JArr(<<JNull, JStr(ChCommaB)>>)>>) }

Inputs ==
    { StrResult(b) : b \in Bodies }
        \cup { StrResult(WrapPre \o b \o WrapPost) : b \in Bodies }
        \cup { StrResult(NoTextPre \o b) : b \in Bodies }
        \cup { StrResult(dumps(v)) : v \in JsonValues }
        \cup { ObjResult(v) : v \in JsonValues }

\* what may go wrong in one rendering: nothing, json.loads raising something
\* other than JSONDecodeError, or the first streamlit / pandas call raising
Faults == {"none", "loads", "display"}

----------------------------------------------------------------------------
(* The renderer on its own: one raw result, displayed live (lines 291-412) *)
(* in the turn that produced it, displayed again from the history (lines   *)
(* 107-233) on the next run, and its text handed back as a raw result.     *)

NotShown == [shown |-> <<>>, exc |-> FALSE, caught |-> FALSE, rule |-> "none"]

\* the text of a fenced block st.markdown(f"```\n{tool_result}\n```")
IsFenced(text) ==
    /\ Len(text) >= 2 * (Len(Fence) + 1)
    /\ startswith(text, Fence \o NL)
    /\ MatchAt(text, NL \o Fence, Len(text) - Len(Fence))

Unfenced(text) == SubSeq(text, Len(Fence) + 2, Len(text) - Len(Fence) - 1)

\* RenderedResult of the specification, read off what was shown
IsJSONValue(shown) == Len(shown) = 1 /\ shown[1].kind = "json"
IsTable(shown) == Len(shown) = 1 /\ shown[1].kind = "dataframe"
IsBulletList(shown) ==
    /\ Len(shown) >= 2
    /\ \A j \in 1..Len(shown) :
          shown[j].kind = "write" /\ startswith(shown[j].text, <<"-", " ">>)
BulletItems(shown) == [j \in 1..Len(shown) |-> SubSeq(shown[j].text, 3, Len(shown[j].text))]
IsPreformattedText(shown) ==
    /\ Len(shown) = 1
    /\ \/ shown[1].kind \in {"text", "code", "write"}
       \/ shown[1].kind = "markdown" /\ IsFenced(shown[1].text)
PreformattedText(shown) ==
    IF shown[1].kind = "markdown" THEN Unfenced(shown[1].text) ELSE shown[1].text

SessionInit ==
    /\ messages = <<>>
    /\ tool_invocations = <<>>
    /\ pc = "idle"
    /\ prompts = 0
    /\ current_tool_invocations = <<>>
    /\ pos = 1
    /\ liveOut = <<>>
    /\ histIdx = 0
    /\ histOut = <<>>

RenderIdle ==
    /\ raw = StrResult(<<>>)
    /\ fault = "none"
    /\ rpc = "off"
    /\ out_live = NotShown
    /\ out_hist = NotShown
    /\ out_again = NotShown

RenderInit ==
    /\ SessionInit
    /\ raw \in Inputs
    /\ fault \in Faults
    /\ rpc = "new"
    /\ out_live = NotShown
    /\ out_hist = NotShown
    /\ out_again = NotShown

\* lines 297-411: the result is displayed in the turn that produced it
DisplayLive ==
    /\ rpc = "new"
    /\ out_live' = LiveRender(raw, fault)
    /\ rpc' = "live"
    /\ UNCHANGED <<raw, fault, out_hist, out_again>>
    /\ UNCHANGED sessionVars

\* lines 118-232: a later run displays the stored result again
DisplayHistory ==
    /\ rpc = "live"
    /\ out_hist' = HistoryRender(raw, fault)
    /\ rpc' = "hist"
    /\ UNCHANGED <<raw, fault, out_live, out_again>>
    /\ UNCHANGED sessionVars

\* the text shown as preformatted text comes back as the raw result of a
\* tool and is rendered with no call raising
RenderAgain ==
    /\ rpc = "hist"
    /\ IsPreformattedText(out_live.shown)
    /\ out_again' = LiveRender(StrResult(PreformattedText(out_live.shown)), "none")
    /\ rpc' = "again"
    /\ UNCHANGED <<raw, fault, out_live, out_hist>>
    /\ UNCHANGED sessionVars

RenderNext == DisplayLive \/ DisplayHistory \/ RenderAgain

SpecRender == RenderInit /\ [][RenderNext]_vars

----------------------------------------------------------------------------
(* Properties of the renderer, checked under SpecRender.                   *)

\* the renderings made so far of the raw result
Shows ==
    IF rpc = "new" THEN {}
    ELSE IF rpc = "live" THEN {out_live}
    ELSE {out_live, out_hist}

HasWrappedMarkers(s) == Contains(s, MetaEq) /\ Contains(s, ContentTC)
HasEscapedRowDump(s) == Contains(s, EscNL) /\ AnyRowMarker(s)

\* C3: every raw result is displayed as at least one output element (here
\* already when no call raises).
C3_AlwaysSomeOutput == \A o \in Shows : fault = "none" => Len(o.shown) >= 1

\* C4 as stated: every string that is valid JSON is shown as the JSON value
\* it decodes to, whatever substrings it contains.
C4_EveryJsonTextIsJSONValue ==
    \A o \in Shows :
        (raw.isstr /\ fault = "none" /\ json_loads(raw.s).ok)
            => o.shown = <<st_json(json_loads(raw.s).val)>>

\* C4 amended: a string that is valid JSON and that holds neither both
\* wrapped-content markers nor an escaped newline with a row marker is shown
\* as the JSON value it decodes to; for the serialization of a value v that
\* value is v itself.
C4_JsonTextIsJSONValue ==
    \A o \in Shows :
        (raw.isstr /\ fault = "none" /\ ~HasWrappedMarkers(raw.s) /\ ~HasEscapedRowDump(raw.s))
            => /\ json_loads(raw.s).ok => o.shown = <<st_json(json_loads(raw.s).val)>>
               /\ \A v \in JsonValues : raw.s = dumps(v) => o.shown = <<st_json(v)>>

RowObject == JObj(<<Row, ChA>>, <<JStr(ChMarker), JArr(<<JNull, JStr(ChCommaB)>>)>>)

C4_Witness ==
    /\ rpc = "hist"
    /\ fault = "none"
    /\ raw = StrResult(dumps(RowObject))
    /\ out_live.shown = <<st_json(RowObject)>>

\* C5 as stated: a string with no comma, no colon and no row marker is shown
\* as preformatted text equal to the trimmed input.
C5_UnmarkedIsTrimmedText ==
    \A o \in Shows :
        (raw.isstr /\ fault = "none" /\ ~Contains(raw.s, Comma)
            /\ ~Contains(raw.s, Colon) /\ ~Contains(raw.s, Row))
            => IsPreformattedText(o.shown) /\ PreformattedText(o.shown) = strip(raw.s)

\* C5 amended: a string with no comma, no colon and no "row" that is not
\* valid JSON and holds not both wrapped-content markers is shown as
\* preformatted text equal to the input unchanged, not trimmed.
C5_UnmarkedIsUnchangedText ==
    \A o \in Shows :
        (raw.isstr /\ fault = "none" /\ ~Contains(raw.s, Comma)
            /\ ~Contains(raw.s, Colon) /\ ~Contains(raw.s, Row)
            /\ ~json_loads(raw.s).ok /\ ~HasWrappedMarkers(raw.s))
            => IsPreformattedText(o.shown) /\ PreformattedText(o.shown) = raw.s

C5_Witness ==
    /\ rpc = "hist"
    /\ fault = "none"
    /\ raw = StrResult(ChSpace \o ChA)
    /\ IsPreformattedText(out_live.shown)
    /\ PreformattedText(out_live.shown) = ChSpace \o ChA

Id == <<"i", "d">>
Name == <<"n", "a", "m", "e">>
TwoRecords ==
    << <<<<Id, <<"1">>>>, <<Name, <<"x">>>>>>, <<<<Id, <<"2">>>>, <<Name, <<"y">>>>>> >>

\* matches of \d+\. row in s, counted without splitting
RowMatches(s) ==
    Cardinality({i \in 2..Len(s) : MatchAt(s, DotRow, i) /\ isdigit(s[i - 1])})

\* C6 as stated: the dump of two row blocks is shown as one table of the two
\* records in order, with real newlines as with escaped ones, and a dump
\* with N row markers as N records.
C6_TwoRowDumpIsTable ==
    \A o \in Shows :
        (fault = "none" /\ raw \in {StrResult(ChRowNl1 \o ChRowNl2), StrResult(ChRowEsc1 \o ChRowEsc2)})
            => o.shown = <<st_dataframe(TwoRecords)>>

\* C6 amended: with escaped line breaks the dump of two row blocks is shown
\* as one table of the two records in order, and any top-level string with
\* an escaped newline and a row marker (and not both wrapped-content
\* markers) as one table with one record per match of the row pattern;
\* with real newlines the two blocks are shown as the heading "1. row" and
\* one record in which the second block's values replace the first's.
C6_EscapedRowDumpIsTable ==
    \A o \in Shows :
        /\ (fault = "none" /\ raw = StrResult(ChRowEsc1 \o ChRowEsc2))
              => o.shown = <<st_dataframe(TwoRecords)>>
        /\ (fault = "none" /\ raw.isstr /\ ~HasWrappedMarkers(raw.s) /\ HasEscapedRowDump(raw.s))
              => IsTable(o.shown) /\ Len(o.shown[1].rows) = RowMatches(raw.s)
        /\ (fault = "none" /\ raw = StrResult(ChRowNl1 \o ChRowNl2))
              => o.shown = <<st_markdown(<<"*", "*">> \o ChMarker \o <<"*", "*">>),
                             st_table(TwoRecords[2])>>

C6_Witness ==
    /\ rpc = "hist"
    /\ fault = "none"
    /\ raw = StrResult(ChRowEsc1 \o ChRowEsc2)
    /\ out_live.shown = <<st_dataframe(TwoRecords)>>

DrugNames ==
    << <<"m", "e", "t", "f", "o", "r", "m", "i", "n">>,
       <<"l", "i", "s", "i", "n", "o", "p", "r", "i", "l">>,
       <<"a", "t", "o", "r", "v", "a", "s", "t", "a", "t", "i", "n">> >>

\* the comma-separated segments of s, each trimmed
TrimmedSegments(s) ==
    LET segs == split(s, Comma) IN [j \in 1..Len(segs) |-> strip(segs[j])]

\* C7 as stated: the plain string of three drug names is shown as the bullet
\* list of the names, and any top-level string with commas, no
\* wrapped-content markers and no row marker as the bullet list of its
\* trimmed segments.
C7_PlainCommaStringIsBulletList ==
    \A o \in Shows :
        /\ (fault = "none" /\ raw = StrResult(Drugs))
              => IsBulletList(o.shown) /\ BulletItems(o.shown) = DrugNames
        /\ (fault = "none" /\ raw.isstr /\ Contains(raw.s, Comma)
                /\ ~HasWrappedMarkers(raw.s) /\ ~Contains(raw.s, Row))
              => IsBulletList(o.shown) /\ BulletItems(o.shown) = TrimmedSegments(raw.s)

\* C7 amended: the plain string of three drug names is shown as preformatted
\* text equal to the whole string, and any top-level string with commas, no
\* wrapped-content markers and no "row" as the JSON value when it is valid
\* JSON and else as preformatted text equal to the string, never as a
\* bullet list.
C7_PlainCommaStringIsText ==
    \A o \in Shows :
        /\ (fault = "none" /\ raw = StrResult(Drugs))
              => IsPreformattedText(o.shown) /\ PreformattedText(o.shown) = Drugs
        /\ (fault = "none" /\ raw.isstr /\ Contains(raw.s, Comma)
                /\ ~HasWrappedMarkers(raw.s) /\ ~Contains(raw.s, Row))
              => /\ ~IsBulletList(o.shown)
                 /\ IF json_loads(raw.s).ok THEN IsJSONValue(o.shown)
                    ELSE IsPreformattedText(o.shown) /\ PreformattedText(o.shown) = raw.s

C7_Witness ==
    /\ rpc = "hist"
    /\ fault = "none"
    /\ raw = StrResult(Drugs)
    /\ IsPreformattedText(out_live.shown)
    /\ PreformattedText(out_live.shown) = Drugs

\* the text the wrapped-content rule extracts and unescapes
ExtractedText(s) == replace(re_search(s).group, EscNL, NL)

\* the comma-separated segments that are not empty after trimming
RECURSIVE NonTrivial(_)
NonTrivial(segs) ==
    IF Len(segs) = 0 THEN <<>>
    ELSE (IF Len(Head(segs)) > 0 THEN <<Head(segs)>> ELSE <<>>) \o NonTrivial(Tail(segs))

\* C8: extracted text with no row marker is shown as the bullet list of its
\* trimmed segments exactly when it holds a comma and more than one segment
\* is non-empty after trimming, and as plain text otherwise.
C8_BulletListOfNonTrivialSegments ==
    \A o \in Shows :
        (fault = "none" /\ raw.isstr /\ HasWrappedMarkers(raw.s) /\ re_search(raw.s).found
            /\ ~AnyRowMarker(ExtractedText(raw.s)))
            => LET text == ExtractedText(raw.s)
                   list == Contains(text, Comma) /\ Len(NonTrivial(TrimmedSegments(text))) > 1
               IN  IF list
                   THEN IsBulletList(o.shown) /\ BulletItems(o.shown) = TrimmedSegments(text)
                   ELSE o.shown = <<st_write(text)>>

\* where preformatted text t, handed back as a raw result, is classified by
\* a rule that comes before the plain-text fallback
Reclassified(t) ==
    \/ HasWrappedMarkers(t) /\ re_search(t).found
    \/ HasEscapedRowDump(t)
    \/ json_loads(t).ok
    \/ Contains(t, Row) /\ Contains(t, Colon)

\* C9 as stated: whenever a result is shown as preformatted text t,
\* rendering t as a raw result shows preformatted text t again (here already
\* when no call raises).
C9_TextRendersToSameText ==
    (rpc = "again" /\ fault = "none")
        => /\ IsPreformattedText(out_again.shown)
           /\ PreformattedText(out_again.shown) = PreformattedText(out_live.shown)

\* C9 amended: whenever a result is shown as preformatted text t, rendering
\* t as a raw result shows preformatted text t again, provided t is not
\* valid JSON, holds not both "row" and ":", holds no escaped newline
\* together with a row marker, and holds no text='...' pattern together
\* with both wrapped-content markers.
C9_UnclassifiedTextRendersToSameText ==
    (rpc = "again" /\ ~Reclassified(PreformattedText(out_live.shown)))
        => /\ IsPreformattedText(out_again.shown)
           /\ PreformattedText(out_again.shown) = PreformattedText(out_live.shown)

\* the wrapped-content plain-text path: st.write of the extracted text, then
\* the fenced block for the same text
C9_Witness ==
    /\ rpc = "again"
    /\ fault = "none"
    /\ raw = StrResult(WrapPre \o ChSpace \o ChA \o WrapPost)
    /\ out_live.shown = <<st_write(ChSpace \o ChA)>>
    /\ out_again.shown = <<st_markdown(Fence \o NL \o ChSpace \o ChA \o NL \o Fence)>>

----------------------------------------------------------------------------
(* The page: one script run per interaction, lines 107-420. liveOut and   *)
(* histOut record what the run has displayed: the renderings of the turn's *)
(* invocations, and those of the history message displayed last.           *)

\* prompts submitted in one session
MaxPrompts == 2
\* tool invocations of one agent response
MaxInvocations == 1

\* results the agent's tools return in the session: wrapped content, whose
\* branch is guarded by the outer except Exception only, and a JSON text,
\* guarded by the inner one too
SessionResults ==
    { StrResult(WrapPre \o ABC \o WrapPost),
      StrResult(dumps(RowObject)) }

RECURSIVE SeqsUpTo(_, _)
SeqsUpTo(S, n) ==
    IF n = 0 THEN {<<>>}
    ELSE SeqsUpTo(S, n - 1) \cup {Append(q, x) : q \in SeqsUpTo(S, n - 1), x \in S}

\* an entry of st.session_state.tool_invocations: None or a list
None == [none |-> TRUE, list |-> <<>>]
List(invocations) == [none |-> FALSE, list |-> invocations]

UserTurn == [role |-> "user", content |-> "prompt"]
ResponseTurn == [role |-> "assistant", content |-> "response_text"]
\* line 419: the error turn of the except branch
ErrorTurn == [role |-> "assistant", content |-> "error_msg"]
\* the except branch without its line 420
ErrorTools_Missing(tis) == tis

\* line 420: the tool entry of the error turn
ErrorTools(tis) == Append(tis, List(<<>>))

\* lines 28-33: the session starts with both lists empty
Init == SessionInit /\ RenderIdle

\* an interaction starts a script run: the page is cleared, the locals of
\* the script are new, and the history loop starts at line 107
Rerun ==
    /\ pc = "idle"
    /\ pc' = "history"
    /\ histIdx' = 0
    /\ histOut' = <<>>
    /\ liveOut' = <<>>
    /\ current_tool_invocations' = <<>>
    /\ pos' = 1
    /\ UNCHANGED <<messages, tool_invocations, prompts>>
    /\ UNCHANGED renderVars

\* lines 112-113: the invocations displayed with message idx (1-based)
HistoryInvocations(idx) ==
    LET invocations == IF idx <= Len(tool_invocations) THEN tool_invocations[idx] ELSE None
    IN  IF messages[idx].role = "assistant" /\ ~invocations.none
        THEN invocations.list ELSE <<>>

\* lines 107-233: one iteration of the history loop. An exception leaving a
\* renderer is not caught and ends the run.
HistoryStep ==
    /\ pc = "history"
    /\ histIdx < Len(messages)
    /\ LET invocations == HistoryInvocations(histIdx + 1)
       IN  \E fs \in [1..Len(invocations) -> Faults] :
              LET shown == [j \in 1..Len(invocations) |->
                               [r |-> HistoryRender(invocations[j], fs[j]), raises |-> fs[j]]]
              IN  /\ histOut' = shown
                  /\ pc' = IF \E j \in 1..Len(shown) : shown[j].r.exc THEN "idle" ELSE "history"
    /\ histIdx' = histIdx + 1
    /\ UNCHANGED <<messages, tool_invocations, prompts, current_tool_invocations, pos, liveOut>>
    /\ UNCHANGED renderVars

\* lines 108-127, 233: a streamlit call of the loop outside the renderer's
\* try raises; nothing catches it and the run ends
HistoryFails ==
    /\ pc = "history"
    /\ histIdx < Len(messages)
    /\ pc' = "idle"
    /\ UNCHANGED <<messages, tool_invocations, prompts, current_tool_invocations, pos, liveOut,
                   histIdx, histOut>>
    /\ UNCHANGED renderVars

\* line 236: the run was not started by a prompt
NoPrompt ==
    /\ pc = "history"
    /\ histIdx = Len(messages)
    /\ pc' = "idle"
    /\ UNCHANGED <<messages, tool_invocations, prompts, current_tool_invocations, pos, liveOut,
                   histIdx, histOut>>
    /\ UNCHANGED renderVars

\* lines 236-240: the prompt is stored with its placeholder
SubmitPrompt ==
    /\ pc = "history"
    /\ histIdx = Len(messages)
    /\ prompts < MaxPrompts
    /\ prompts' = prompts + 1
    /\ messages' = Append(messages, UserTurn)
    /\ tool_invocations' = Append(tool_invocations, None)
    /\ pc' = "agent"
    /\ UNCHANGED <<current_tool_invocations, pos, liveOut, histIdx, histOut>>
    /\ UNCHANGED renderVars

\* lines 246-289: the agent answers; the response is stored with its invocations
AgentResponds ==
    /\ pc = "agent"
    /\ \E invocations \in SeqsUpTo(SessionResults, MaxInvocations) :
          /\ current_tool_invocations' = invocations
          /\ tool_invocations' = Append(tool_invocations, List(invocations))
    /\ messages' = Append(messages, ResponseTurn)
    /\ pos' = 1
    /\ pc' = "display"
    /\ UNCHANGED <<prompts, liveOut, histIdx, histOut>>
    /\ UNCHANGED renderVars

\* lines 246-287 raise (the agent run, or showing the response); lines 414-420
AgentFails ==
    /\ pc = "agent"
    /\ messages' = Append(messages, ErrorTurn)
    /\ tool_invocations' = ErrorTools(tool_invocations)
    /\ pc' = "idle"
    /\ UNCHANGED <<prompts, current_tool_invocations, pos, liveOut, histIdx, histOut>>
    /\ UNCHANGED renderVars

\* lines 294-411: one invocation is displayed. An exception leaving the
\* renderer reaches the except branch of the turn, lines 414-420.
LiveDisplayStep ==
    /\ pc = "display"
    /\ pos <= Len(current_tool_invocations)
    /\ \E f \in Faults :
          LET d == LiveRender(current_tool_invocations[pos], f)
          IN  /\ liveOut' = Append(liveOut, [r |-> d, raises |-> f])
              /\ IF d.exc
                 THEN /\ messages' = Append(messages, ErrorTurn)
                      /\ tool_invocations' = ErrorTools(tool_invocations)
                      /\ pc' = "idle"
                      /\ pos' = pos
                 ELSE /\ pos' = pos + 1
                      /\ UNCHANGED <<messages, tool_invocations, pc>>
    /\ UNCHANGED <<prompts, current_tool_invocations, histIdx, histOut>>
    /\ UNCHANGED renderVars

\* lines 293-306, 412: a streamlit call outside the renderer's try raises
\* after the response was stored; lines 414-420
LiveDisplayFails ==
    /\ pc = "display"
    /\ Len(current_tool_invocations) > 0
    /\ messages' = Append(messages, ErrorTurn)
    /\ tool_invocations' = ErrorTools(tool_invocations)
    /\ pc' = "idle"
    /\ UNCHANGED <<prompts, current_tool_invocations, pos, liveOut, histIdx, histOut>>
    /\ UNCHANGED renderVars

\* line 412 of the last invocation passed: the run ends
LiveDisplayDone ==
    /\ pc = "display"
    /\ pos > Len(current_tool_invocations)
    /\ pc' = "idle"
    /\ UNCHANGED <<messages, tool_invocations, prompts, current_tool_invocations, pos, liveOut,
                   histIdx, histOut>>
    /\ UNCHANGED renderVars

Next ==
    \/ Rerun
    \/ HistoryStep
    \/ HistoryFails
    \/ NoPrompt
    \/ SubmitPrompt
    \/ AgentResponds
    \/ AgentFails
    \/ LiveDisplayStep
    \/ LiveDisplayFails
    \/ LiveDisplayDone

Spec == Init /\ [][Next]_vars

----------------------------------------------------------------------------
(* Properties of the page, checked under Spec, and of the two renderers.   *)

\* C1: the chat turns and the tool entries have the same length and are
\* extended together: a user turn with None, an assistant turn with its
\* list of invocations, the error turn with an empty list.
C1_ListsExtendedTogether ==
    /\ Len(messages) = Len(tool_invocations)
    /\ \A i \in 1..Len(messages) :
          i <= Len(tool_invocations)
              => /\ messages[i].role = "user" <=> tool_invocations[i].none
                 /\ messages[i] = ErrorTurn => tool_invocations[i] = List(<<>>)

\* a turn that failed while displaying its invocations, then a turn in
\* which the agent failed
C1_Witness ==
    /\ pc = "idle"
    /\ Len(messages) = 5
    /\ Len(tool_invocations) = 5
    /\ messages = <<UserTurn, ResponseTurn, ErrorTurn, UserTurn, ErrorTurn>>
    /\ Len(tool_invocations[2].list) > 0

C10_HistoryShowsWhatLiveShowed ==
    rpc \in {"hist", "again"}
        => /\ out_hist.rule = out_live.rule
           /\ out_hist.shown = out_live.shown
           /\ out_hist = out_live

C10_Witness ==
    /\ rpc = "hist"
    /\ fault = "none"
    /\ raw = StrResult(ChRowEsc1 \o ChCommaB)
    /\ out_live.rule = "escaped"
    /\ IsTable(out_live.shown)
    /\ out_hist = out_live

\* s holds no text='...': the search of line 133 finds nothing
NoQuotedText(s) ==
    ~\E i \in 1..Len(s) :
        /\ MatchAt(s, TextEqQuote, i)
        /\ \E j \in (i + Len(TextEqQuote))..Len(s) : s[j] = "'"

\* C11: a string with both 'meta=' and 'content=[TextContent' is handled by
\* the wrapped-content branch only, also when it holds backslash-n and a
\* 'k. row' marker; when no text='...' is found in it, what is shown is the
\* original string as preformatted text.
C11_WrappedBeforeEscaped ==
    \A o \in Shows :
        (raw.isstr /\ HasWrappedMarkers(raw.s))
            => /\ o.rule = "wrapped"
               /\ NoQuotedText(raw.s)
                    => /\ IsPreformattedText(o.shown)
                       /\ PreformattedText(o.shown) = raw.s

\* a wrapped string without text='...' that is also an escaped row dump,
\* shown as it is by st.code
C11_Witness ==
    /\ rpc = "hist"
    /\ fault = "none"
    /\ raw = StrResult(NoTextPre \o ChRowEsc1)
    /\ HasEscapedRowDump(raw.s)
    /\ NoQuotedText(raw.s)
    /\ out_live.rule = "wrapped"
    /\ out_live.shown = <<st_code(NoTextPre \o ChRowEsc1)>>
    /\ out_hist = out_live

\* the cells of a table: the <<key, value>> pairs of all its records
Cells(shown) ==
    UNION { {shown[1].rows[j][k] : k \in 1..Len(shown[1].rows[j])} :
                j \in 1..Len(shown[1].rows) }

\* the whole of what follows the first colon of a line of text, trimmed
WholeValues(text) ==
    { strip(split1(split(text, NL)[j], Colon)[2]) :
         j \in {i \in 1..Len(split(text, NL)) : Contains(split(text, NL)[i], Colon)} }

\* no line of text that holds a colon is cut by a match of the row pattern
ValueLinesWhole(text) ==
    \A j \in 1..Len(split(text, NL)) :
        Contains(split(text, NL)[j], Colon) => RowMatches(split(text, NL)[j]) = 0

\* C12: extracted text with a 'k. row' marker is never shown as a bullet
\* list and, when no call raises, is shown as one table with one record per
\* match of the row pattern; a value is the whole rest of its line, commas
\* included, where the row pattern cuts no line that holds a value.
C12_RowsBeforeCommas ==
    \A o \in Shows :
        (raw.isstr /\ HasWrappedMarkers(raw.s) /\ ~NoQuotedText(raw.s)
            /\ AnyRowMarker(ExtractedText(raw.s)))
            => /\ ~IsBulletList(o.shown)
               /\ fault = "none"
                    => /\ IsTable(o.shown)
                       /\ Len(o.shown[1].rows) = RowMatches(ExtractedText(raw.s))
                       /\ ValueLinesWhole(ExtractedText(raw.s))
                            => \A c \in Cells(o.shown) :
                                  c[2] \in WholeValues(ExtractedText(raw.s))
               /\ (fault = "none" /\ raw = StrResult(WrapPre \o ChRowComma \o WrapPost))
                    => o.shown = <<st_dataframe(<< <<<<Name, ChA \o ChCommaB>>, <<Id, <<"1">>>>>> >>)>>

\* the row block whose name holds a comma, shown as a table with the comma
\* in the cell
C12_Witness ==
    /\ rpc = "hist"
    /\ fault = "none"
    /\ raw = StrResult(WrapPre \o ChRowComma \o WrapPost)
    /\ Contains(ExtractedText(raw.s), Comma)
    /\ AnyRowMarker(ExtractedText(raw.s))
    /\ IsTable(out_live.shown)
    /\ <<Name, ChA \o ChCommaB>> \in Cells(out_live.shown)

\* index of the first quote at or after i that no backslash escapes, or 0
RECURSIVE UnescapedQuote(_, _)
UnescapedQuote(s, i) ==
    IF i > Len(s) THEN 0
    ELSE IF s[i] = "\\" THEN UnescapedQuote(s, i + 2)
    ELSE IF s[i] = "'" THEN i
    ELSE UnescapedQuote(s, i + 1)

\* what stands between the first text=' of s and the first unescaped quote
QuotedContent(s) ==
    SubSeq(s, Find(s, TextEqQuote, 1) + Len(TextEqQuote),
           UnescapedQuote(s, Find(s, TextEqQuote, 1) + Len(TextEqQuote)) - 1)

\* C13: in the wrapped-content branch the text extracted and classified is
\* everything between text=' and the first unescaped closing quote, so a
\* backslash-escaped quote does not end it.
C13_ExtractionStopsAtUnescapedQuote ==
    \A o \in Shows :
        (raw.isstr /\ fault = "none" /\ HasWrappedMarkers(raw.s)
            /\ Find(raw.s, TextEqQuote, 1) # 0
            /\ UnescapedQuote(raw.s, Find(raw.s, TextEqQuote, 1) + Len(TextEqQuote)) # 0)
            => /\ ExtractedText(raw.s) = replace(QuotedContent(raw.s), EscNL, NL)
               /\ o.shown = LiveExtracted(replace(QuotedContent(raw.s), EscNL, NL))

\* C14: the chat history alternates user and assistant turns, starting with
\* a user turn, and once a prompt is handled it has added one user turn and
\* one assistant turn: the response or the error message, never both.
C14_TurnsAlternate ==
    /\ \A i \in 1..Len(messages) :
          messages[i].role = IF i % 2 = 1 THEN "user" ELSE "assistant"
    /\ pc \in {"idle", "history"} => Len(messages) = 2 * prompts
    /\ \A i \in 1..(Len(messages) - 1) :
          ~(messages[i] = ResponseTurn /\ messages[i + 1] = ErrorTurn)

====
